---- MODULE Spec2Model ----
(***************************************************************************)
(* StreamsPointNumerator (streams_point_numerator.py): numbering of point  *)
(* features along stream polylines.                                        *)
(*                                                                         *)
(* Python strings are sequences of one-character strings ("5P" is          *)
(* <<"5","P">>), so that slicing, concatenation and int() are computed.    *)
(* Coordinates are integers measured in units of the buffer distance       *)
(* (0.0000001 layer units); every polyline of the inputs is rectilinear,   *)
(* so arc lengths and projections are integers.                            *)
(***************************************************************************)
EXTENDS Integers, Sequences, FiniteSets, TLC

VARIABLES
    streams_layer,               \* features of the streams layer: <<[mark, polyline]>>
    points_layer,                \* the point dataset: [committed, buffer, editable]
    point_features,              \* snapshot of the point features, by feature id
    unified_streams_geometries,  \* ordered dict: <<[mark, geom]>>
    streams_points,              \* ordered dict: <<[mark, points]>>
    stream_old_points,           \* ordered dict: <<[mark, points]>>
    pc,                          \* position of run()
    raised,                      \* the exception run() ended with, or None
    console,                     \* the step messages run() has written
    write_failed,                \* ids whose changeAttributeValue returned False
    faults,                      \* service failures that have happened
    num,                         \* argument of generate_letter_suffix
    suffix,                      \* its result
    long_line                    \* one line given by its legacy points: [length, old_points, points]

vars == <<streams_layer, points_layer, point_features, unified_streams_geometries,
          streams_points, stream_old_points, pc, raised, console, write_failed,
          faults, num, suffix, long_line>>

-----------------------------------------------------------------------------
(* Bounds of the model *)

\* features of the streams layer
MaxFragments == 2
\* point features of a layer with free locations
MaxGeoPoints == 2
\* points on one line, legacy numbers drawn from ShortLegacy
MaxLinePoints == 5
\* points on one line, legacy numbers drawn from AllLegacy
MaxLegacyPoints == 3
\* failures of the layer and geometry services within one run
MaxFaults == 1
\* largest argument of generate_letter_suffix
MaxSuffixNum == 750

-----------------------------------------------------------------------------
(* Python values *)

\* qgis.core.NULL and Python's None; no string equals either, strings being
\* sequences of single characters
NULL == <<"NULL">>
None == <<"None">>

Digits == <<"0", "1", "2", "3", "4", "5", "6", "7", "8", "9">>
Letters == <<"a", "b", "c", "d", "e", "f", "g", "h", "i", "j", "k", "l", "m",
             "n", "o", "p", "q", "r", "s", "t", "u", "v", "w", "x", "y", "z">>

IsDigit(c) == \E i \in 1..Len(Digits) : Digits[i] = c
DigitValue(c) == (CHOOSE i \in 1..Len(Digits) : Digits[i] = c) - 1

\* the f-string conversion of an int
RECURSIVE FormatNat(_)
FormatNat(n) ==
    IF n < Len(Digits) THEN <<Digits[n + 1]>>
    ELSE FormatNat(n \div Len(Digits)) \o <<Digits[(n % Len(Digits)) + 1]>>

FormatInt(n) == IF n < 0 THEN <<"-">> \o FormatNat(-n) ELSE FormatNat(n)

\* s[:-1]
DropLast(s) == SubSeq(s, 1, Len(s) - 1)

\* str.strip() of the blanks int() ignores around its argument
RECURSIVE StripLeft(_)
StripLeft(s) == IF s # <<>> /\ Head(s) = " " THEN StripLeft(Tail(s)) ELSE s
RECURSIVE StripRight(_)
StripRight(s) == IF s # <<>> /\ s[Len(s)] = " " THEN StripRight(DropLast(s)) ELSE s

\* the digits of an int() argument: digits, single underscores between digits only
RECURSIVE DigitsValue(_, _)
DigitsValue(s, acc) ==
    IF s = <<>> THEN [raises |-> FALSE, value |-> acc]
    ELSE IF IsDigit(Head(s)) THEN DigitsValue(Tail(s), acc * Len(Digits) + DigitValue(Head(s)))
    ELSE IF Head(s) = "_" /\ Len(s) > 1 /\ IsDigit(s[2]) THEN DigitsValue(Tail(s), acc)
    ELSE [raises |-> TRUE, value |-> 0]

\* int(s): raises ValueError unless s is [blanks][sign]digits[blanks]
ParseInt(s) ==
    LET t == StripRight(StripLeft(s))
        signed == t # <<>> /\ Head(t) \in {"+", "-"}
        body == IF signed THEN Tail(t) ELSE t
        r == IF body = <<>> \/ ~IsDigit(Head(body))
             THEN [raises |-> TRUE, value |-> 0]
             ELSE DigitsValue(body, 0)
    IN  IF ~r.raises /\ signed /\ Head(t) = "-"
        THEN [raises |-> FALSE, value |-> 0 - r.value]
        ELSE r

-----------------------------------------------------------------------------
(* generate_letter_suffix *)

RECURSIVE generate_letter_suffix_skewed(_)
generate_letter_suffix_skewed(n) ==
    IF n < 26 THEN <<Letters[n + 1]>>
    ELSE generate_letter_suffix_skewed(n \div 26) \o <<Letters[(n % 26) + 1]>>

RECURSIVE generate_letter_suffix(_)
generate_letter_suffix(n) ==
    IF n < 26 THEN <<Letters[n + 1]>>
    ELSE generate_letter_suffix((n \div 26) - 1) \o <<Letters[(n % 26) + 1]>>

-----------------------------------------------------------------------------
(* The three numbering zones.  A list of stream points is a sequence of     *)
(* records [point_id, distance, old_number, new_number, index]; "index" is  *)
(* the 0-based position in the list, as enumerate() gives it.               *)

\* stream_points[i] for a 0-based i
At(list, i) == list[i + 1]

\* list with the new_number of every position in zone set by number(i)
Numbered(stream_points, zone, number(_)) ==
    [p \in 1..Len(stream_points) |->
        IF (p - 1) \in zone
        THEN [stream_points[p] EXCEPT !.new_number = number(p - 1)]
        ELSE stream_points[p]]

\* range(first_old_index)
BeforeZone(old_points) == 0 .. (old_points[1].index - 1)

\* f"{i + 1}Pnowy"
before_number(i) == FormatInt(i + 1) \o <<"P", "n", "o", "w", "y">>

numerate_points_before_old(stream_points, old_points) ==
    LET number(i) == before_number(i)
    IN  Numbered(stream_points, BeforeZone(old_points), number)

\* range(last_old_index + 1, len(stream_points)), shifted
AfterZoneShifted(stream_points, old_points) ==
    (old_points[Len(old_points)].index + 2) .. (Len(stream_points) - 1)

\* range(last_old_index + 1, len(stream_points))
AfterZone(stream_points, old_points) ==
    (old_points[Len(old_points)].index + 1) .. (Len(stream_points) - 1)

\* int(old_points[-1]["old_number"][:-1]), parsing everything as 0
last_base_number_lenient(old_points) ==
    LET r == ParseInt(DropLast(old_points[Len(old_points)].old_number))
    IN  [raises |-> FALSE, value |-> r.value]

\* int(old_points[-1]["old_number"][:-1])
last_base_number(old_points) ==
    ParseInt(DropLast(old_points[Len(old_points)].old_number))

\* last_base_number + offset, numbered from the legacy point itself
after_number_unshifted(last_base, last_old_index, i) ==
    FormatInt(last_base + (i - last_old_index) - 1) \o <<"P">>

\* offset = i - last_old_index; f"{last_base_number + offset}P"
after_number(last_base, last_old_index, i) ==
    FormatInt(last_base + (i - last_old_index)) \o <<"P">>

\* [points, raises]: int() is evaluated before the first write of the zone
numerate_points_after_old(stream_points, old_points) ==
    LET last_old_index == old_points[Len(old_points)].index
        base == last_base_number(old_points)
        number(i) == after_number(base.value, last_old_index, i)
    IN  IF last_old_index < Len(stream_points) - 1
        THEN IF base.raises
             THEN [points |-> stream_points, raises |-> TRUE]
             ELSE [points |-> Numbered(stream_points,
                                       AfterZone(stream_points, old_points), number),
                   raises |-> FALSE]
        ELSE [points |-> stream_points, raises |-> FALSE]

\* next_old_index - current_old_index - 1 for the i-th pair (0-based)
points_between_count(old_points, i) ==
    At(old_points, i + 1).index - At(old_points, i).index - 1

\* point_index, off by one
point_index_on_legacy(current_old_index, j) == current_old_index + j

\* point_index = current_old_index + j + 1
point_index(current_old_index, j) == current_old_index + j + 1

\* the positions the i-th pair of legacy points writes
BetweenZone(old_points, i) ==
    {point_index(At(old_points, i).index, j) :
        j \in 0 .. (points_between_count(old_points, i) - 1)}

\* base_number = current_old_point["old_number"][:-1]
base_number(current_old_point) == DropLast(current_old_point.old_number)

\* f"{base_number}P{letter_suffix}", lettered from "b"
between_number_from_b(current_old_point, j) ==
    base_number(current_old_point) \o <<"P">> \o generate_letter_suffix(j + 1)

\* f"{base_number}P{letter_suffix}" with letter_suffix = generate_letter_suffix(j)
between_number(current_old_point, j) ==
    base_number(current_old_point) \o <<"P">> \o generate_letter_suffix(j)

\* the body of the loop over range(len(old_points) - 1), from its i-th pass on
RECURSIVE numerate_points_between_from(_, _, _)
numerate_points_between_from(stream_points, old_points, i) ==
    IF i > Len(old_points) - 2 THEN stream_points
    ELSE LET current_old_point == At(old_points, i)
             count == points_between_count(old_points, i)
             \* the last j written at position p, the loop running j upwards
             jOf(p) == CHOOSE j \in 0 .. (count - 1) :
                          /\ point_index(current_old_point.index, j) = p
                          /\ \A k \in 0 .. (count - 1) :
                                point_index(current_old_point.index, k) = p => k <= j
             number(p) == between_number(current_old_point, jOf(p))
         IN  numerate_points_between_from(
                 Numbered(stream_points, BetweenZone(old_points, i), number),
                 old_points, i + 1)

numerate_points_between_old(stream_points, old_points) ==
    numerate_points_between_from(stream_points, old_points, 0)

\* the branch of numerate_points for a line without legacy points
numerate_plain(stream_points) ==
    LET number(i) == FormatInt(i + 1) \o <<"P">>
    IN  Numbered(stream_points, 0 .. (Len(stream_points) - 1), number)

\* one pass of the loop of numerate_points: [points, raises]
numerate_stream(stream_points, old_points) ==
    IF old_points = <<>>
    THEN [points |-> numerate_plain(stream_points), raises |-> FALSE]
    ELSE numerate_points_after_old(
             numerate_points_between_old(
                 numerate_points_before_old(stream_points, old_points), old_points),
             old_points)

-----------------------------------------------------------------------------
(* Geometry.  A vertex is <<x, y>>, a polyline a sequence of vertices, the  *)
(* empty geometry the empty sequence.  Fragments of one layer meet only at  *)
(* vertices, so the union of polylines is the set of their segments.        *)

\* the distance of unified_geom.buffer(0.0000001, 5), the unit of the coordinates
BufferDistance == 1

Abs(x) == IF x < 0 THEN 0 - x ELSE x
Min(a, b) == IF a <= b THEN a ELSE b
Max(a, b) == IF a >= b THEN a ELSE b
Clamp(v, lo, hi) == Max(lo, Min(v, hi))

Range(list) == {list[i] : i \in 1..Len(list)}
Reversed(list) == [i \in 1..Len(list) |-> list[Len(list) + 1 - i]]

\* QgsGeometry.isEmpty
isEmpty(geom) == geom = <<>>

\* QgsGeometry.boundingBox
boundingBox(polyline) ==
    [xmin |-> CHOOSE x \in {v[1] : v \in Range(polyline)} :
                  \A v \in Range(polyline) : x <= v[1],
     xmax |-> CHOOSE x \in {v[1] : v \in Range(polyline)} :
                  \A v \in Range(polyline) : x >= v[1],
     ymin |-> CHOOSE y \in {v[2] : v \in Range(polyline)} :
                  \A v \in Range(polyline) : y <= v[2],
     ymax |-> CHOOSE y \in {v[2] : v \in Range(polyline)} :
                  \A v \in Range(polyline) : y >= v[2]]

\* a point lies in a rectangle, its border included
InBox(p, box) ==
    /\ box.xmin <= p[1] /\ p[1] <= box.xmax
    /\ box.ymin <= p[2] /\ p[2] <= box.ymax

\* the point of the axis-parallel segment a-b closest to p
ClosestOnSegment(p, a, b) ==
    <<Clamp(p[1], Min(a[1], b[1]), Max(a[1], b[1])),
      Clamp(p[2], Min(a[2], b[2]), Max(a[2], b[2]))>>

SquaredDistance(p, q) ==
    (p[1] - q[1]) * (p[1] - q[1]) + (p[2] - q[2]) * (p[2] - q[2])

\* length of the axis-parallel segment a-b
SegmentLength(a, b) == Abs(a[1] - b[1]) + Abs(a[2] - b[2])

SquaredDistanceToSegment(p, polyline, i) ==
    SquaredDistance(p, ClosestOnSegment(p, polyline[i], polyline[i + 1]))

\* the first segment of the polyline nearest to p
NearestSegment(p, polyline) ==
    CHOOSE i \in 1 .. (Len(polyline) - 1) :
        /\ \A k \in 1 .. (Len(polyline) - 1) :
              SquaredDistanceToSegment(p, polyline, i)
                  <= SquaredDistanceToSegment(p, polyline, k)
        /\ \A k \in 1 .. (i - 1) :
              SquaredDistanceToSegment(p, polyline, i)
                  < SquaredDistanceToSegment(p, polyline, k)

\* point_geom.intersects(unified_geom.buffer(0.0000001, 5))
intersects_buffered(point_geom, unified_geom) ==
    SquaredDistanceToSegment(point_geom, unified_geom,
                             NearestSegment(point_geom, unified_geom))
        <= BufferDistance * BufferDistance

RECURSIVE LengthUpTo(_, _)
LengthUpTo(polyline, i) ==
    IF i <= 1 THEN 0
    ELSE LengthUpTo(polyline, i - 1) + SegmentLength(polyline[i - 1], polyline[i])

\* unified_geom.lineLocatePoint(point_geom)
lineLocatePoint(unified_geom, point_geom) ==
    LET i == NearestSegment(point_geom, unified_geom)
    IN  LengthUpTo(unified_geom, i)
            + SegmentLength(unified_geom[i],
                            ClosestOnSegment(point_geom, unified_geom[i],
                                             unified_geom[i + 1]))

\* the segments of a list of polylines, as unaryUnion leaves them
UnionSegments(geoms) ==
    {e \in UNION {{{g[i], g[i + 1]} : i \in 1 .. (Len(g) - 1)} : g \in Range(geoms)} :
        Cardinality(e) = 2}

Degree(v, segments) == Cardinality({e \in segments : v \in e})

\* the maximal lines that continue path through vertices of degree 2
RECURSIVE Walks(_, _, _)
Walks(path, used, segments) ==
    LET last == path[Len(path)]
        onward == {e \in segments \ used : last \in e}
    IN  IF onward = {} \/ (Len(path) > 1 /\ Degree(last, segments) # 2)
        THEN {path}
        ELSE UNION {Walks(Append(path, CHOOSE v \in e : v # last), used \cup {e}, segments)
                        : e \in onward}

\* the lines QgsGeometry.mergeLines can return for a union, in either direction
MergedLines(segments) ==
    LET vertices == UNION segments
        ends == {v \in vertices : Degree(v, segments) # 2}
        open == UNION {Walks(<<v>>, {}, segments) : v \in ends}
        ringed == {v \in vertices : \A line \in open : v \notin Range(line)}
    IN  open \cup UNION {Walks(<<v>>, {}, segments) : v \in ringed}

-----------------------------------------------------------------------------
(* union_stream_geometries *)

\* stream_mark is None or stream_mark == NULL or stream_mark == ""
IsBlank(value) == value = None \/ value = NULL \/ value = <<>>

\* the features the first loop does not skip
IsKept(stream) ==
    /\ ~IsBlank(stream.mark)
    /\ ~isEmpty(stream.polyline)
    /\ Len(stream.polyline) >= 2

KeptStreams(layer) == SelectSeq(layer, IsKept)

\* the keys of streams_geoms, in the order of their first feature
RECURSIVE MarksInOrder(_)
MarksInOrder(kept) ==
    IF kept = <<>> THEN <<>>
    ELSE LET before == MarksInOrder(DropLast(kept))
             mark == kept[Len(kept)].mark
         IN  IF mark \in Range(before) THEN before ELSE Append(before, mark)

stream_start_points(kept, mark) ==
    {kept[i].polyline[1] : i \in {k \in 1..Len(kept) : kept[k].mark = mark}}

stream_end_points(kept, mark) ==
    {kept[i].polyline[Len(kept[i].polyline)] :
        i \in {k \in 1..Len(kept) : kept[k].mark = mark}}

\* streams_geoms[mark]
RECURSIVE streams_geoms(_, _)
streams_geoms(kept, mark) ==
    IF kept = <<>> THEN <<>>
    ELSE LET before == streams_geoms(DropLast(kept), mark)
             stream == kept[Len(kept)]
         IN  IF stream.mark = mark THEN Append(before, stream.polyline) ELSE before

\* what the second loop can store for one mark: the only fragment, or a line
\* of mergeLines(unaryUnion(...)) (the first part when there are several,
\* whichever the library puts first), or the null geometry of a failed union
UnifiedChoices(stream_geometries) ==
    IF Len(stream_geometries) = 1 THEN {stream_geometries[1]}
    ELSE MergedLines(UnionSegments(stream_geometries)) \cup {<<>>}

\* the dicts the second loop can leave, for the marks from the k-th on
RECURSIVE UnifiedDicts(_, _, _)
UnifiedDicts(kept, marks, k) ==
    IF k > Len(marks) THEN {<<>>}
    ELSE {<<[mark |-> marks[k], geom |-> g]>> \o rest :
            g \in UnifiedChoices(streams_geoms(kept, marks[k])),
            rest \in UnifiedDicts(kept, marks, k + 1)}

\* the third loop's body: reversed when the first vertex is an end point
direction_checked(unified_polyline, end_points) ==
    IF unified_polyline[1] \in end_points
    THEN Reversed(unified_polyline)
    ELSE unified_polyline

\* the third loop from the k-th entry on; asPolyline raises on a null geometry
RECURSIVE DirectionLoop(_, _, _)
DirectionLoop(dict, kept, k) ==
    IF k > Len(dict) THEN [dict |-> dict, raises |-> FALSE]
    ELSE IF isEmpty(dict[k].geom) THEN [dict |-> dict, raises |-> TRUE]
    ELSE DirectionLoop(
             [dict EXCEPT ![k].geom =
                 direction_checked(dict[k].geom, stream_end_points(kept, dict[k].mark))],
             kept, k + 1)

NullGeometries(dict) == Cardinality({k \in 1..Len(dict) : isEmpty(dict[k].geom)})

-----------------------------------------------------------------------------
(* assign_points_to_streams *)

\* point_old_number, None when the field is NULL, None or ""
legacy_number(point_old_number) ==
    IF point_old_number # NULL /\ point_old_number # None /\ point_old_number # <<>>
    THEN point_old_number
    ELSE None

\* the ids that pass the bounding box query, the isEmpty test and the
\* intersection with the buffered line
matching_points(unified_geom, features) ==
    {point_id \in 1..Len(features) :
        /\ ~isEmpty(features[point_id].geometry)
        /\ InBox(features[point_id].geometry, boundingBox(unified_geom))
        /\ intersects_buffered(features[point_id].geometry, unified_geom)}

stream_point(point_id, unified_geom, features) ==
    [point_id |-> point_id,
     distance |-> lineLocatePoint(unified_geom, features[point_id].geometry),
     old_number |-> legacy_number(features[point_id].numer_stary),
     new_number |-> legacy_number(features[point_id].numer_stary)]

\* the lists sort(key=itemgetter("distance")) can give for a set of stream
\* points: the sort is stable and the index returns its candidates in an
\* order of its own, so points at one distance come in any order
RECURSIVE SortedLists(_)
SortedLists(points) ==
    IF points = {} THEN {<<>>}
    ELSE UNION {{<<first>> \o rest : rest \in SortedLists(points \ {first})} :
                  first \in {p \in points : \A q \in points : p.distance <= q.distance}}

\* stream_point["index"] = i
Indexed(list) ==
    [i \in 1..Len(list) |->
        [point_id |-> list[i].point_id, distance |-> list[i].distance,
         old_number |-> list[i].old_number, new_number |-> list[i].new_number,
         index |-> i - 1]]

\* the streams_points the loops can build, from the k-th unified line on
RECURSIVE AssignedDicts(_, _, _)
AssignedDicts(unified, features, k) ==
    IF k > Len(unified) THEN {<<>>}
    ELSE LET ids == IF isEmpty(unified[k].geom) THEN {}
                    ELSE matching_points(unified[k].geom, features)
             points == {stream_point(id, unified[k].geom, features) : id \in ids}
         IN  IF ids = {} THEN AssignedDicts(unified, features, k + 1)
             ELSE {<<[mark |-> unified[k].mark, points |-> Indexed(list)]>> \o rest :
                     list \in SortedLists(points),
                     rest \in AssignedDicts(unified, features, k + 1)}

HasOldNumber(stream_point_) == stream_point_.old_number # None

\* stream_old_points, a list per key of streams_points
OldPointsOf(dict) ==
    [k \in 1..Len(dict) |->
        [mark |-> dict[k].mark, points |-> SelectSeq(dict[k].points, HasOldNumber)]]

-----------------------------------------------------------------------------
(* numerate_points *)

\* self.stream_old_points[stream_mark]
OldPoints(old_dict, mark) ==
    (CHOOSE entry \in Range(old_dict) : entry.mark = mark).points

\* the loop over streams_points from its k-th entry on; the lists are changed
\* in place, so the writes made before an exception stay
RECURSIVE NumerateLoop(_, _, _)
NumerateLoop(dict, old_dict, k) ==
    IF k > Len(dict) THEN [dict |-> dict, raises |-> FALSE]
    ELSE LET r == numerate_stream(dict[k].points, OldPoints(old_dict, dict[k].mark))
             written == [dict EXCEPT ![k].points = r.points]
         IN  IF r.raises THEN [dict |-> written, raises |-> TRUE]
             ELSE NumerateLoop(written, old_dict, k + 1)

-----------------------------------------------------------------------------
(* update_points_layer and the layer's editing service *)

\* all stream points, line after line
RECURSIVE AllStreamPoints(_)
AllStreamPoints(dict) ==
    IF dict = <<>> THEN <<>>
    ELSE AllStreamPoints(DropLast(dict)) \o dict[Len(dict)].points

\* points_to_update after the first n stream points: a key keeps the place
\* of its first insertion and the value of its last
RECURSIVE PointsToUpdate(_, _)
PointsToUpdate(stream_points, n) ==
    IF n = 0 THEN <<>>
    ELSE LET before == PointsToUpdate(stream_points, n - 1)
             point == stream_points[n]
             item == [point_id |-> point.point_id, new_number |-> point.new_number]
         IN  IF point.new_number = None THEN before
             ELSE IF \E i \in 1..Len(before) : before[i].point_id = point.point_id
             THEN [i \in 1..Len(before) |->
                      IF before[i].point_id = point.point_id THEN item ELSE before[i]]
             ELSE Append(before, item)

points_to_update(dict) ==
    PointsToUpdate(AllStreamPoints(dict), Len(AllStreamPoints(dict)))

NoChanges(layer) == [id \in 1..Len(layer.committed) |-> None]

startEditing(layer, ok) == IF ok THEN [layer EXCEPT !.editable = TRUE] ELSE layer

changeAttributeValue(layer, id, value, ok) ==
    IF ok /\ layer.editable THEN [layer EXCEPT !.buffer[id] = value] ELSE layer

\* a failed commit leaves the layer editable and its buffer as it was
commitChanges(layer, ok) ==
    IF ok
    THEN [committed |-> [id \in 1..Len(layer.committed) |->
                            IF layer.buffer[id] # None THEN layer.buffer[id]
                            ELSE layer.committed[id]],
          buffer |-> NoChanges(layer),
          editable |-> FALSE]
    ELSE layer

rollBack(layer) == [layer EXCEPT !.buffer = NoChanges(layer), !.editable = FALSE]

\* the loop over points_to_update.items(), its first n passes
RECURSIVE WriteNumbers(_, _, _, _)
WriteNumbers(layer, to_update, n, failing) ==
    IF n = 0 THEN layer
    ELSE changeAttributeValue(WriteNumbers(layer, to_update, n - 1, failing),
                              to_update[n].point_id, to_update[n].new_number,
                              to_update[n].point_id \notin failing)

\* the loop over point_features.keys(), its first n passes
RECURSIVE WriteNulls(_, _, _, _)
WriteNulls(layer, to_update, n, failing) ==
    IF n = 0 THEN layer
    ELSE LET before == WriteNulls(layer, to_update, n - 1, failing)
         IN  IF \E i \in 1..Len(to_update) : to_update[i].point_id = n
             THEN before
             ELSE changeAttributeValue(before, n, NULL, n \notin failing)

\* the except clause: rollBack when the layer is editable
Recovered(layer) == IF layer.editable THEN rollBack(layer) ELSE layer

\* a variant that commits the numbers before it clears the other points
UpdatedCommittingTwice(layer, dict, start_ok, failing, commit_ok) ==
    LET to_update == points_to_update(dict)
        numbered == commitChanges(
                        WriteNumbers(startEditing(layer, TRUE), to_update,
                                     Len(to_update), failing), TRUE)
        written == WriteNulls(startEditing(numbered, TRUE), to_update,
                              Len(layer.committed), failing)
    IN  IF ~start_ok THEN [layer |-> Recovered(layer), raises |-> TRUE]
        ELSE IF commit_ok THEN [layer |-> commitChanges(written, TRUE), raises |-> FALSE]
        ELSE [layer |-> Recovered(commitChanges(written, FALSE)), raises |-> TRUE]

\* update_points_layer for given answers of the layer: [layer, raises]
Updated(layer, dict, start_ok, failing, commit_ok) ==
    LET to_update == points_to_update(dict)
        written == WriteNulls(
                       WriteNumbers(startEditing(layer, TRUE), to_update,
                                    Len(to_update), failing),
                       to_update, Len(layer.committed), failing)
    IN  IF ~start_ok
        THEN [layer |-> Recovered(startEditing(layer, FALSE)), raises |-> TRUE]
        ELSE IF commit_ok
        THEN [layer |-> commitChanges(written, TRUE), raises |-> FALSE]
        ELSE [layer |-> Recovered(commitChanges(written, FALSE)), raises |-> TRUE]

-----------------------------------------------------------------------------
(* Inputs: the layers a run starts from *)

Feature(mark, polyline) == [mark |-> mark, polyline |-> polyline]

MainLine == <<<<0, 0>>, <<8, 0>>>>

\* stream features: a main line, its continuation in both directions, a
\* tributary under either mark, a ring, and the features the first loop skips
StreamCatalogue ==
    {Feature(<<"A">>, MainLine),
     Feature(<<"A">>, <<<<8, 0>>, <<12, 0>>>>),
     Feature(<<"A">>, <<<<12, 0>>, <<8, 0>>>>),
     Feature(<<"A">>, <<<<8, 0>>, <<8, 4>>>>),
     Feature(<<"B">>, <<<<8, 0>>, <<8, 4>>>>),
     Feature(<<"B">>, <<<<0, 2>>, <<2, 2>>, <<2, 4>>, <<0, 4>>, <<0, 2>>>>),
     Feature(NULL, MainLine),
     Feature(<<"A">>, <<>>),
     Feature(<<"B">>, <<<<8, 0>>>>)}

\* point locations: on the main line, at its junction with the tributary,
\* one buffer distance beside the main line, away from every line, and the
\* empty geometry
Locations == {<<2, 0>>, <<8, 0>>, <<2, 1>>, <<6, 3>>, <<>>}

\* values of numer-stary
ShortLegacy == {NULL, <<"5", "P">>, <<"8", "P">>}
AllLegacy ==
    {NULL, <<"1", "2", "P">>, <<"5", "X">>, <<"P">>, <<"a", "b">>,
     <<"5", "P", "a">>, <<"-", "3", "P">>}

\* a value of numer-nowy left by an earlier run
EarlierNumber == <<"9", "P">>

Point(geometry, numer_stary, numer_nowy) ==
    [geometry |-> geometry, numer_stary |-> numer_stary, numer_nowy |-> numer_nowy]

SeqsUpTo(S, n) == UNION {[1..k -> S] : k \in 0..n}

\* points in a row on the main line, the first feature farthest from its start
PointsInRow(olds) ==
    [i \in 1..Len(olds) |-> Point(<<Len(olds) + 1 - i, 0>>, olds[i], EarlierNumber)]

\* any stream layer with two fixed points
StreamInputs ==
    {<<layer, <<Point(<<2, 0>>, <<>>, NULL), Point(<<8, 0>>, <<"5", "P">>, EarlierNumber)>>>> :
        layer \in SeqsUpTo(StreamCatalogue, MaxFragments)}

\* points anywhere, on one line, two lines with a junction, or a merged line
LocationInputs ==
    {<<Feature(<<"A">>, MainLine)>>,
     <<Feature(<<"A">>, MainLine), Feature(<<"B">>, <<<<8, 0>>, <<8, 4>>>>)>>,
     <<Feature(<<"A">>, MainLine), Feature(<<"A">>, <<<<8, 0>>, <<8, 4>>>>)>>}


PointInputs ==
    {<<layer, points>> :
        layer \in LocationInputs,
        points \in SeqsUpTo({Point(g, NULL, n) : g \in Locations, n \in {NULL, EarlierNumber}},
                            MaxGeoPoints)}

\* points in a row on the main line with any legacy numbers
LegacyInputs ==
    {<<<<Feature(<<"A">>, MainLine)>>, PointsInRow(olds)>> :
        olds \in SeqsUpTo(ShortLegacy, MaxLinePoints) \cup SeqsUpTo(AllLegacy, MaxLegacyPoints)}

Inputs == StreamInputs \cup PointInputs \cup LegacyInputs

-----------------------------------------------------------------------------
(* run() *)

StagesInOrder ==
    <<"union_stream_geometries", "assign_points_to_streams",
      "numerate_points", "update_points_layer">>

StageNumber(stage) == CHOOSE k \in 1..Len(StagesInOrder) : StagesInOrder[k] = stage

\* run() going on to the next step whatever the step did
run_after_swallowing(stage, stage_raised) ==
    IF StageNumber(stage) < Len(StagesInOrder)
    THEN StagesInOrder[StageNumber(stage) + 1]
    ELSE "done"

\* where run() is after a step: an exception of a step ends run()
run_after(stage, stage_raised) ==
    IF stage_raised THEN "failed"
    ELSE IF StageNumber(stage) < Len(StagesInOrder)
    THEN StagesInOrder[StageNumber(stage) + 1]
    ELSE "done"

\* the message run() writes before a step
StepMessage(stage) == <<"Krok", StageNumber(stage), Len(StagesInOrder)>>

\* a step of run(): its message, then the step, then the except clause
Step(stage, stage_raised) ==
    /\ pc = stage
    /\ console' = Append(console, StepMessage(stage))
    /\ pc' = run_after(stage, stage_raised)
    /\ raised' = IF stage_raised THEN <<"RuntimeError", stage>> ELSE raised

\* no line: the value of long_line in the runs of the whole program
NoLine == [length |-> 0, old_points |-> <<>>, points |-> <<>>]

Init ==
    /\ \E input \in Inputs :
          /\ streams_layer = input[1]
          /\ point_features = input[2]
          /\ points_layer =
                [committed |-> [id \in 1..Len(input[2]) |-> input[2][id].numer_nowy],
                 buffer |-> [id \in 1..Len(input[2]) |-> None],
                 editable |-> FALSE]
    /\ unified_streams_geometries = <<>>
    /\ streams_points = <<>>
    /\ stream_old_points = <<>>
    /\ pc = StagesInOrder[1]
    /\ raised = None
    /\ console = <<>>
    /\ write_failed = {}
    /\ faults = 0
    /\ num = 0
    /\ suffix = None
    /\ long_line = NoLine

union_stream_geometries ==
    LET kept == KeptStreams(streams_layer)
    IN  \E filled \in UnifiedDicts(kept, MarksInOrder(kept), 1) :
           LET r == DirectionLoop(filled, kept, 1)
           IN  /\ faults + NullGeometries(filled) <= MaxFaults
               /\ faults' = faults + NullGeometries(filled)
               /\ unified_streams_geometries' = r.dict
               /\ Step("union_stream_geometries", r.raises)
               /\ UNCHANGED <<long_line, streams_layer, points_layer, point_features, streams_points,
                              stream_old_points, write_failed, num, suffix>>

assign_points_to_streams ==
    /\ \/ \E dict \in AssignedDicts(unified_streams_geometries, point_features, 1) :
             /\ streams_points' = dict
             /\ stream_old_points' = OldPointsOf(dict)
             /\ Step("assign_points_to_streams", FALSE)
             /\ UNCHANGED faults
       \/ \* a call of the index or of the geometry library raises
          /\ faults < MaxFaults
          /\ faults' = faults + 1
          /\ Step("assign_points_to_streams", TRUE)
          /\ UNCHANGED <<streams_points, stream_old_points>>
    /\ UNCHANGED <<long_line, streams_layer, points_layer, point_features,
                   unified_streams_geometries, write_failed, num, suffix>>

numerate_points ==
    LET r == NumerateLoop(streams_points, stream_old_points, 1)
    IN  /\ streams_points' = r.dict
        /\ Step("numerate_points", r.raises)
        /\ UNCHANGED <<long_line, streams_layer, points_layer, point_features,
                       unified_streams_geometries, stream_old_points, write_failed,
                       faults, num, suffix>>

update_points_layer ==
    \E start_ok \in BOOLEAN, commit_ok \in BOOLEAN,
       failing \in SUBSET (1..Len(point_features)) :
        LET r == Updated(points_layer, streams_points, start_ok, failing, commit_ok)
            failures == Cardinality(failing) + (IF start_ok THEN 0 ELSE 1)
                            + (IF commit_ok THEN 0 ELSE 1)
        IN  /\ ~start_ok => (failing = {} /\ commit_ok)
            /\ faults + failures <= MaxFaults
            /\ faults' = faults + failures
            /\ points_layer' = r.layer
            /\ write_failed' = failing
            /\ Step("update_points_layer", r.raises)
            /\ UNCHANGED <<long_line, streams_layer, point_features, unified_streams_geometries,
                           streams_points, stream_old_points, num, suffix>>

Next ==
    \/ union_stream_geometries
    \/ assign_points_to_streams
    \/ numerate_points
    \/ update_points_layer

Spec == Init /\ [][Next]_vars

-----------------------------------------------------------------------------
(* generate_letter_suffix on its own *)

InitSuffix ==
    /\ streams_layer = <<>>
    /\ point_features = <<>>
    /\ points_layer = [committed |-> <<>>, buffer |-> <<>>, editable |-> FALSE]
    /\ unified_streams_geometries = <<>>
    /\ streams_points = <<>>
    /\ stream_old_points = <<>>
    /\ pc = "generate_letter_suffix"
    /\ raised = None
    /\ console = <<>>
    /\ write_failed = {}
    /\ faults = 0
    /\ num \in 0..MaxSuffixNum
    /\ suffix = None
    /\ long_line = NoLine

CallGenerateLetterSuffix ==
    /\ pc = "generate_letter_suffix"
    /\ suffix' = generate_letter_suffix(num)
    /\ pc' = "returned"
    /\ UNCHANGED <<long_line, streams_layer, points_layer, point_features,
                   unified_streams_geometries, streams_points, stream_old_points,
                   raised, console, write_failed, faults, num>>

NextSuffix == CallGenerateLetterSuffix

SpecSuffix == InitSuffix /\ [][NextSuffix]_vars

-----------------------------------------------------------------------------
(* numerate_points on one line too long to list.  The line is given by its *)
(* length and its old_points; the stream points kept are those next to the *)
(* ends of its zones, each with the index it has in the full list.         *)

\* points before the first legacy point
MaxBefore == 2
\* points after the last legacy point
MaxAfter == 1
\* the longest run of points between two legacy points
LongGap == 256827
\* positions kept on each side of the end of a zone
SampleWidth == 2

\* numer-stary of the first and of the second legacy point
FirstLegacyNumbers == {<<"1", "P">>, <<"2", "P">>}
SecondLegacyNumbers == {<<"2", "P">>, <<"3", "P">>}
Gaps == {0, 1, LongGap}

\* the stream point at a 0-based position of the sorted list
point_at(position, old_number) ==
    [point_id |-> position + 1, distance |-> position, old_number |-> old_number,
     new_number |-> old_number, index |-> position]

LongLines ==
    {[length |-> before + gap + after + 2,
      old_points |-> <<point_at(before, first), point_at(before + gap + 1, second)>>] :
        before \in 0..MaxBefore, gap \in Gaps, after \in 0..MaxAfter,
        first \in FirstLegacyNumbers, second \in SecondLegacyNumbers}

\* the positions within SampleWidth of the ends of the zones of a line
KeptPositions(line) ==
    LET ends == {0, line.length - 1} \cup {line.old_points[i].index : i \in 1..Len(line.old_points)}
    IN  UNION {Max(0, e - SampleWidth) .. Min(line.length - 1, e + SampleWidth) : e \in ends}

\* the stream points of a line at the kept positions, before numerate_points
KeptPoints(line, positions) ==
    [position \in positions |->
        LET legacy == {i \in 1..Len(line.old_points) : line.old_points[i].index = position}
        IN  IF legacy = {} THEN point_at(position, None)
            ELSE line.old_points[CHOOSE i \in legacy : TRUE]]

\* whether numerate_points_after_old raises on a line of this length
after_old_raises(stream_length, old_points) ==
    /\ old_points[Len(old_points)].index < stream_length - 1
    /\ last_base_number(old_points).raises

\* the new_number the three zone loops leave at position p of a line with
\* legacy points: the one write each loop makes there, if any
new_number_at(stream_length, old_points, point) ==
    LET p == point.index
        last_old_index == old_points[Len(old_points)].index
    IN  IF p \in {old_points[i].index : i \in 1..Len(old_points)} THEN point.new_number
        ELSE IF p < old_points[1].index THEN before_number(p)
        ELSE IF p > last_old_index
        THEN IF last_base_number(old_points).raises THEN point.new_number
             ELSE after_number(last_base_number(old_points).value, last_old_index, p)
        ELSE LET i == CHOOSE k \in 0 .. (Len(old_points) - 2) :
                          At(old_points, k).index < p /\ p < At(old_points, k + 1).index
                 j == CHOOSE k \in {p - At(old_points, i).index - 1} :
                          /\ k < points_between_count(old_points, i)
                          /\ point_index(At(old_points, i).index, k) = p
             IN  between_number(At(old_points, i), j)

InitLongLine ==
    /\ streams_layer = <<>>
    /\ point_features = <<>>
    /\ points_layer = [committed |-> <<>>, buffer |-> <<>>, editable |-> FALSE]
    /\ unified_streams_geometries = <<>>
    /\ streams_points = <<>>
    /\ stream_old_points = <<>>
    /\ pc = "numerate_points"
    /\ raised = None
    /\ console = <<>>
    /\ write_failed = {}
    /\ faults = 0
    /\ num = 0
    /\ suffix = None
    /\ \E line \in LongLines :
          \E p \in KeptPositions(line), q \in KeptPositions(line) :
              /\ p < q
              /\ long_line = [length |-> line.length, old_points |-> line.old_points,
                              points |-> KeptPoints(line, {p, q})]

\* numerate_points, seen at the kept positions
numerate_long_line ==
    /\ long_line # NoLine
    /\ long_line' =
          [long_line EXCEPT !.points =
              [position \in DOMAIN long_line.points |->
                  [long_line.points[position] EXCEPT !.new_number =
                      new_number_at(long_line.length, long_line.old_points,
                                    long_line.points[position])]]]
    /\ Step("numerate_points", after_old_raises(long_line.length, long_line.old_points))
    /\ UNCHANGED <<streams_layer, points_layer, point_features,
                   unified_streams_geometries, streams_points, stream_old_points,
                   write_failed, faults, num, suffix>>

NextLongLine == numerate_long_line

SpecLongLine == InitLongLine /\ [][NextLongLine]_vars

-----------------------------------------------------------------------------
(* Properties *)

Entered(stage) == StepMessage(stage) \in Range(console)
Failed(stage) == raised = <<"RuntimeError", stage>>
Completed(stage) == Entered(stage) /\ ~Failed(stage)

\* the values of numer-nowy before the run
Before(id) == point_features[id].numer_nowy
Untouched ==
    /\ \A id \in 1..Len(point_features) : points_layer.committed[id] = Before(id)
    /\ \A id \in 1..Len(point_features) : points_layer.buffer[id] = None
    /\ ~points_layer.editable

PointIds == 1..Len(point_features)
Lines == 1..Len(streams_points)
PointsOn(k) == streams_points[k].points
LegacyOn(k) == OldPoints(stream_old_points, streams_points[k].mark)

\* the 0-based positions of the legacy points of a list
LegacyPositions(points) == {i \in 0 .. (Len(points) - 1) : At(points, i).old_number # None}
FirstLegacy(points) ==
    CHOOSE i \in LegacyPositions(points) : \A j \in LegacyPositions(points) : i <= j
LastLegacy(points) ==
    CHOOSE i \in LegacyPositions(points) : \A j \in LegacyPositions(points) : i >= j
\* the legacy position that follows position i
NextLegacy(points, i) ==
    CHOOSE n \in LegacyPositions(points) :
        n > i /\ \A j \in LegacyPositions(points) : j > i => n <= j

OldNumbers(points) == [i \in 1..Len(points) |-> points[i].old_number]
NewNumbers(points) == [i \in 1..Len(points) |-> points[i].new_number]

\* the n-th string (0-based) of a, b, ..., z, aa, ab, ..., zz, aaa, ...
RECURSIVE Power26(_)
Power26(k) == IF k = 0 THEN 1 ELSE 26 * Power26(k - 1)
RECURSIVE ShorterStrings(_)
ShorterStrings(len) == IF len <= 1 THEN 0 ELSE ShorterStrings(len - 1) + Power26(len - 1)
NthString(n) ==
    LET len == CHOOSE l \in 1 .. (n + 1) :
                   ShorterStrings(l) <= n /\ n < ShorterStrings(l + 1)
        r == n - ShorterStrings(len)
    IN  [i \in 1..len |-> Letters[((r \div Power26(len - i)) % 26) + 1]]

\* digits followed by the suffix marker, and the number the digits write
IsDigitsP(s) ==
    /\ Len(s) >= 2
    /\ s[Len(s)] = "P"
    /\ \A i \in 1 .. (Len(s) - 1) : IsDigit(s[i])
RECURSIVE NumberOf(_)
NumberOf(digits) ==
    IF digits = <<>> THEN 0
    ELSE 10 * NumberOf(DropLast(digits)) + DigitValue(digits[Len(digits)])

\* an optional sign and one or more digits
IsIntegerText(s) ==
    LET body == IF s # <<>> /\ s[1] \in {"+", "-"} THEN Tail(s) ELSE s
    IN  body # <<>> /\ \A i \in 1..Len(body) : IsDigit(body[i])

\* the lines on which numerate_points_after_old reads a numeric base
ReadsBase(k) ==
    /\ LegacyPositions(PointsOn(k)) # {}
    /\ LastLegacy(PointsOn(k)) < Len(PointsOn(k)) - 1
LastLegacyNumber(k) == At(PointsOn(k), LastLegacy(PointsOn(k))).old_number

\* C1: once numerate_points has run, every stream point whose feature has a
\* non-blank numer-stary has that value, unchanged, as its new_number
LegacyPreserved ==
    Entered("numerate_points") =>
        \A k \in Lines : \A i \in 1..Len(PointsOn(k)) :
            LET old == point_features[PointsOn(k)[i].point_id].numer_stary
            IN  ~IsBlank(old) => PointsOn(k)[i].new_number = old

\* a line numbered in all three zones around two or more legacy points
LegacyPreservedWitness ==
    /\ Completed("numerate_points")
    /\ \E k \in Lines :
          /\ Cardinality(LegacyPositions(PointsOn(k))) >= 2
          /\ FirstLegacy(PointsOn(k)) > 0
          /\ LastLegacy(PointsOn(k)) < Len(PointsOn(k)) - 1
          /\ \E i \in FirstLegacy(PointsOn(k)) .. LastLegacy(PointsOn(k)) :
                i \notin LegacyPositions(PointsOn(k))

\* the lists a feature is in, and whether it is within tolerance of a line
ListsHolding(id) ==
    {k \in Lines : \E i \in 1..Len(PointsOn(k)) : PointsOn(k)[i].point_id = id}
WithinTolerance(id) ==
    /\ ~isEmpty(point_features[id].geometry)
    /\ \E u \in 1..Len(unified_streams_geometries) :
          intersects_buffered(point_features[id].geometry,
                              unified_streams_geometries[u].geom)

\* C2: after assign_points_to_streams a point within tolerance of a unified
\* line is in exactly one list, and a point within tolerance of none is in none
Coverage ==
    Completed("assign_points_to_streams") =>
        \A id \in PointIds :
            Cardinality(ListsHolding(id)) = (IF WithinTolerance(id) THEN 1 ELSE 0)

\* C3: after an update whose writes and commit all succeeded, the field of an
\* assigned point holds its computed number and the field of any other point
\* is NULL
UpdateWritesComputed ==
    (pc = "done" /\ write_failed = {}) =>
        \A id \in PointIds :
            /\ \A k \in Lines : \A i \in 1..Len(PointsOn(k)) :
                  PointsOn(k)[i].point_id = id
                      => points_layer.committed[id] = PointsOn(k)[i].new_number
            /\ ListsHolding(id) = {} => points_layer.committed[id] = NULL

\* the value update_points_layer means to write for a feature: the number of
\* its last stream point, NULL when it has none
AttemptedValue(id) ==
    LET all == AllStreamPoints(streams_points)
        places == {i \in 1..Len(all) : all[i].point_id = id}
    IN  IF places = {} THEN NULL
        ELSE all[CHOOSE i \in places : \A j \in places : i >= j].new_number

UpdateEnded == Entered("update_points_layer")

\* C4 as claimed: after update_points_layer the stored values are all the
\* attempted ones or all the earlier ones
NoPartialCommit ==
    UpdateEnded =>
        \/ \A id \in PointIds : points_layer.committed[id] = AttemptedValue(id)
        \/ \A id \in PointIds : points_layer.committed[id] = Before(id)

\* C4: after update_points_layer either it returned and every write whose
\* changeAttributeValue succeeded is stored, the other points keeping their
\* values, or it raised and nothing is stored; no edit is left pending
NoPartialCommitOfAcceptedWrites ==
    UpdateEnded =>
        /\ \/ /\ pc = "done"
              /\ \A id \in PointIds :
                    points_layer.committed[id] =
                        (IF id \in write_failed THEN Before(id) ELSE AttemptedValue(id))
           \/ /\ Failed("update_points_layer")
              /\ \A id \in PointIds : points_layer.committed[id] = Before(id)
        /\ \A id \in PointIds : points_layer.buffer[id] = None
        /\ ~points_layer.editable

\* a commit that stores some of the writes and misses a refused one
NoPartialCommitWitness ==
    /\ pc = "done"
    /\ \E id \in write_failed : AttemptedValue(id) # Before(id)
    /\ \E id \in PointIds \ write_failed :
          /\ AttemptedValue(id) # Before(id)
          /\ points_layer.committed[id] = AttemptedValue(id)

\* C5: the steps run in order; the layer is as it was until the fourth step;
\* when one of the first three raises, run() ends with RuntimeError, the
\* fourth step is never entered and the layer is as it was
RunOrder ==
    /\ \A i \in 1..Len(console) :
          i <= Len(StagesInOrder) /\ console[i] = StepMessage(StagesInOrder[i])
    /\ ~Entered("update_points_layer") => Untouched
    /\ \A n \in 1..3 :
          Failed(StagesInOrder[n]) =>
              /\ pc = "failed"
              /\ Len(console) = n
              /\ Untouched
    /\ Entered("update_points_layer") =>
          \A n \in 1..3 : Completed(StagesInOrder[n])
    /\ pc = "failed" <=> raised # None

\* the third step raised over a layer that holds earlier numbers
RunOrderWitness ==
    /\ Failed("numerate_points")
    /\ pc = "failed"
    /\ \E id \in PointIds : Before(id) # NULL

\* the zones of line k, as the three passes walk them
ZonesOf(k) ==
    [before |-> BeforeZone(LegacyOn(k)),
     between |-> [i \in 0 .. (Len(LegacyOn(k)) - 2) |-> BetweenZone(LegacyOn(k), i)],
     after |-> AfterZone(PointsOn(k), LegacyOn(k))]

RECURSIVE SumOfSizes(_, _)
SumOfSizes(sets, n) ==
    IF n < 0 THEN 0 ELSE SumOfSizes(sets, n - 1) + Cardinality(sets[n])

\* how many zones hold position p
ZonesHolding(k, p) ==
    LET z == ZonesOf(k)
    IN  (IF p \in z.before THEN 1 ELSE 0)
            + Cardinality({i \in DOMAIN z.between : p \in z.between[i]})
            + (IF p \in z.after THEN 1 ELSE 0)

ZoneSizesAsClaimed(k, between_size) ==
    LET points == PointsOn(k)
        z == ZonesOf(k)
    IN  /\ Len(LegacyOn(k)) = Cardinality(LegacyPositions(points))
        /\ Cardinality(z.before) = FirstLegacy(points)
        /\ SumOfSizes(z.between, Len(LegacyOn(k)) - 2) = between_size
        /\ Cardinality(z.after) = Len(points) - 1 - LastLegacy(points)

\* C6 as claimed: on a line with k legacy points the between-zones hold
\* last - first - k points in all
ZoneCompletenessAsClaimed ==
    Completed("assign_points_to_streams") =>
        \A k \in Lines :
            LegacyPositions(PointsOn(k)) # {} =>
                ZoneSizesAsClaimed(k, LastLegacy(PointsOn(k)) - FirstLegacy(PointsOn(k))
                                          - Cardinality(LegacyPositions(PointsOn(k))))

\* C6: on a line with k legacy points the before-zone holds first points,
\* the between-zones last - first - k + 1 in all, the after-zone n - 1 - last;
\* every position is a legacy point or in exactly one zone, never both; and
\* once numerate_points has returned no point of the line is without a number
ZoneCompleteness ==
    Completed("assign_points_to_streams") =>
        \A k \in Lines :
            LegacyPositions(PointsOn(k)) # {} =>
                /\ ZoneSizesAsClaimed(k, LastLegacy(PointsOn(k)) - FirstLegacy(PointsOn(k))
                                             - Cardinality(LegacyPositions(PointsOn(k))) + 1)
                /\ \A p \in 0 .. (Len(PointsOn(k)) - 1) :
                      ZonesHolding(k, p) = (IF p \in LegacyPositions(PointsOn(k)) THEN 0 ELSE 1)
                /\ Completed("numerate_points") =>
                      \A i \in 1..Len(PointsOn(k)) : PointsOn(k)[i].new_number # None

\* a numbered line whose three zones are all in use, every point numbered
ZoneCompletenessWitness ==
    /\ Completed("numerate_points")
    /\ \E k \in Lines :
          LET z == ZonesOf(k)
          IN  /\ Len(LegacyOn(k)) >= 2
              /\ z.before # {}
              /\ z.after # {}
              /\ \E i \in DOMAIN z.between : z.between[i] # {}
              /\ \A i \in 1..Len(PointsOn(k)) : PointsOn(k)[i].new_number # None

\* C7: once numerate_points has returned, on a line with legacy points the
\* j-th point after a legacy point and before the next one has that legacy
\* number without its last character, then "P", then the j-th string of
\* a, b, ..., z, aa, ...; a point at position i before the first legacy point
\* has "{i+1}Pnowy"; [-, 5P, -, -, 8P] gives [1Pnowy, 5P, 5Pa, 5Pb, 8P]
BetweenNumbering ==
    Completed("numerate_points") =>
        \A k \in Lines :
            LET points == PointsOn(k)
                legacy == LegacyPositions(points)
            IN  /\ legacy # {} =>
                      \A p \in 0 .. (Len(points) - 1) :
                          /\ p < FirstLegacy(points) =>
                                At(points, p).new_number
                                    = FormatInt(p + 1) \o <<"P", "n", "o", "w", "y">>
                          /\ (p \in legacy /\ p # LastLegacy(points)) =>
                                \A j \in 0 .. (NextLegacy(points, p) - p - 2) :
                                    At(points, p + 1 + j).new_number
                                        = SubSeq(At(points, p).old_number, 1,
                                                 Len(At(points, p).old_number) - 1)
                                              \o <<"P">> \o NthString(j)
                /\ OldNumbers(points) = <<None, <<"5", "P">>, None, None, <<"8", "P">>>>
                      => NewNumbers(points) = <<<<"1", "P", "n", "o", "w", "y">>, <<"5", "P">>,
                                                <<"5", "P", "a">>, <<"5", "P", "b">>,
                                                <<"8", "P">>>>

\* the line [-, 5P, -, -, 8P], numbered
BetweenNumberingWitness ==
    /\ Completed("numerate_points")
    /\ \E k \in Lines :
          /\ OldNumbers(PointsOn(k)) = <<None, <<"5", "P">>, None, None, <<"8", "P">>>>
          /\ PointsOn(k)[3].new_number = <<"5", "P", "a">>

\* C8: once numerate_points has returned, on a line whose last legacy number
\* is digits B then "P", the point k places after it has "{B+k}P"; 12P
\* followed by two points gives 13P and 14P
AfterNumbering ==
    Completed("numerate_points") =>
        \A k \in Lines :
            LET points == PointsOn(k)
            IN  /\ (LegacyPositions(points) # {} /\ IsDigitsP(LastLegacyNumber(k))) =>
                      \A off \in 1 .. (Len(points) - 1 - LastLegacy(points)) :
                          At(points, LastLegacy(points) + off).new_number
                              = FormatNat(NumberOf(DropLast(LastLegacyNumber(k))) + off)
                                    \o <<"P">>
                /\ OldNumbers(points) = <<<<"1", "2", "P">>, None, None>>
                      => NewNumbers(points)
                            = <<<<"1", "2", "P">>, <<"1", "3", "P">>, <<"1", "4", "P">>>>

\* the line [12P, -, -], numbered
AfterNumberingWitness ==
    /\ Completed("numerate_points")
    /\ \E k \in Lines :
          /\ OldNumbers(PointsOn(k)) = <<<<"1", "2", "P">>, None, None>>
          /\ PointsOn(k)[3].new_number # None

\* C9: generate_letter_suffix(n) is the n-th string of a, ..., z, aa, ..., zz,
\* aaa, ...: a at 0, z at 25, aa at 26, ab at 27, zz at 701, aaa at 702; no
\* other argument has the same suffix
LetterSuffixLaw ==
    pc = "returned" =>
        /\ suffix = NthString(num)
        /\ num = 0 => suffix = <<"a">>
        /\ num = 25 => suffix = <<"z">>
        /\ num = 26 => suffix = <<"a", "a">>
        /\ num = 27 => suffix = <<"a", "b">>
        /\ num = 701 => suffix = <<"z", "z">>
        /\ num = 702 => suffix = <<"a", "a", "a">>
        /\ \A m \in 0..MaxSuffixNum : m # num => generate_letter_suffix(m) # suffix

\* the first suffix of three letters
LetterSuffixLawWitness == pc = "returned" /\ num = 702 /\ suffix = <<"a", "a", "a">>

\* C10 as claimed: when numerate_points reads a numeric base from a legacy
\* number that is not digits then "P", it raises and nothing is written
MalformedLegacyFails ==
    Entered("numerate_points") =>
        ((\E k \in Lines : ReadsBase(k) /\ ~IsDigitsP(LastLegacyNumber(k)))
            => (Failed("numerate_points") /\ pc = "failed" /\ Untouched))

\* C10: numerate_points raises exactly when it reads a numeric base from a
\* legacy number that, its last character dropped, is no integer text (an
\* optional sign, then digits); run() then ends with RuntimeError with the
\* fourth step never entered and nothing written
MalformedBaseFails ==
    Entered("numerate_points") =>
        /\ (\E k \in Lines : ReadsBase(k) /\ ~IsIntegerText(DropLast(LastLegacyNumber(k))))
              <=> Failed("numerate_points")
        /\ Failed("numerate_points") =>
              (pc = "failed" /\ ~Entered("update_points_layer") /\ Untouched)

\* a run ended by a legacy number without digits before a trailing point
MalformedBaseFailsWitness ==
    /\ Failed("numerate_points")
    /\ \E k \in Lines : ReadsBase(k) /\ LastLegacyNumber(k) = <<"P">>

\* the marks with exactly one fragment that union_stream_geometries keeps
SingleFragmentMarks ==
    LET kept == KeptStreams(streams_layer)
    IN  {mark \in Range(MarksInOrder(kept)) : Len(streams_geoms(kept, mark)) = 1}
\* the unified polyline stored for a mark
UnifiedOf(mark) ==
    LET k == CHOOSE i \in 1..Len(unified_streams_geometries) :
                 unified_streams_geometries[i].mark = mark
    IN  unified_streams_geometries[k].geom

\* C11 as claimed: after union_stream_geometries, the unified polyline of
\* every mark with exactly one valid fragment is that fragment's vertex
\* sequence, same vertices in the same order, closed fragments included
SingleFragmentIdentity ==
    Completed("union_stream_geometries") =>
        \A mark \in SingleFragmentMarks :
            UnifiedOf(mark) = streams_geoms(KeptStreams(streams_layer), mark)[1]

\* legacy numbers that are digits then P, pairwise distinct, their numeric
\* bases strictly increasing along the line
LegacyInOrder(old_points) ==
    /\ \A i \in 1..Len(old_points) : IsDigitsP(old_points[i].old_number)
    /\ \A i \in 1..Len(old_points), j \in 1..Len(old_points) :
          i < j => /\ old_points[i].old_number # old_points[j].old_number
                   /\ NumberOf(DropLast(old_points[i].old_number))
                         < NumberOf(DropLast(old_points[j].old_number))

\* the listed lines and the long line agree: position by position,
\* new_number_at gives the numbers numerate_stream leaves in the list
PositionwiseNumbers ==
    Completed("numerate_points") =>
        \A k \in Lines :
            LegacyOn(k) # <<>> =>
                \A i \in 1..Len(PointsOn(k)) :
                    PointsOn(k)[i].new_number
                        = new_number_at(Len(PointsOn(k)), LegacyOn(k),
                                        [PointsOn(k)[i] EXCEPT
                                            !.new_number = PointsOn(k)[i].old_number])

\* C12 on the listed lines: with legacy numbers in order, or with none, the
\* new numbers of a line of up to MaxLinePoints points are pairwise distinct
UniqueOnListedLines ==
    Completed("numerate_points") =>
        \A k \in Lines :
            LegacyInOrder(LegacyOn(k)) =>
                \A i \in 1..Len(PointsOn(k)), j \in 1..Len(PointsOn(k)) :
                    i # j => PointsOn(k)[i].new_number # PointsOn(k)[j].new_number

\* C12 as claimed: when the legacy numbers of a line are digits then P,
\* pairwise distinct and with strictly increasing bases, the numbers
\* numerate_points leaves on the points of the line are pairwise distinct
UniqueOnLine ==
    (long_line # NoLine /\ Completed("numerate_points")
        /\ LegacyInOrder(long_line.old_points)) =>
        \A p \in DOMAIN long_line.points, q \in DOMAIN long_line.points :
            p # q => long_line.points[p].new_number # long_line.points[q].new_number

====
